---- MODULE Spec2Model ----
(***************************************************************************)
(* kpi (kmcsr/kpi_mcdr): the command-tree builder of src/kpi/command.py.   *)
(*                                                                         *)
(* The state is the heap of host parser nodes (MCDR.AbstractNode), the     *)
(* MiddleWare objects, the bound kpi Node objects, the declared CommandSet *)
(* subclasses with their class-level instance slot, the CommandSet         *)
(* instances, the host's command registry, and the outcome of the last     *)
(* operation.  One action per operation of the library.                    *)
(*                                                                         *)
(* The concurrency helpers of src/kpi/utils.py (Channel, Job, JobManager)  *)
(* and the info listeners of src/kpi/api.py have their own variables: the  *)
(* Channel object and the threads calling it, the JobManager's slot and    *)
(* the threads calling Jobs, and the module-level list of listeners.       *)
(*                                                                         *)
(* The host (mcdreforged) is not part of the repository: its parser-node   *)
(* capability (then / requires / runs, at_min / at_max, command dispatch)  *)
(* is modelled from section 6 of the specification.                        *)
(***************************************************************************)
EXTENDS Integers, Sequences, FiniteSets, TLC

VARIABLES heap, mws, knodes, classes, insts, server, outcome,
          channel, callers, manager, workers, listeners

vars == <<heap, mws, knodes, classes, insts, server, outcome,
          channel, callers, manager, workers, listeners>>

\* The state of the command-tree builder, and the state of utils.py / api.py.
cmdvars == <<heap, mws, knodes, classes, insts, server>>
utilvars == <<channel, callers, manager, workers, listeners>>

(***************************************************************************)
(* Bounds of the model.                                                    *)
(***************************************************************************)
MaxMW == 2          \* MiddleWare objects created
MaxNodes == 1       \* kpi Nodes bound
MaxClasses == 1     \* CommandSet subclasses declared (tree lifecycle)
MaxSetClasses == 2  \* CommandSet subclasses declared (set lifecycle)
MaxRegs == 1        \* register_to calls
MaxArg == 2         \* largest number written in a subscript
MaxNestClasses == 3 \* CommandSet subclasses declared (nesting)
MaxReuseNodes == 2  \* kpi Nodes bound (decorator reuse)
MaxReqs == 2        \* requirements on one parser node before trigger is called again
MaxChain == 2       \* parser nodes in the args list of a Node
MaxComposeClasses == 2 \* CommandSet subclasses declared (composition)
MaxCalls == 3       \* send calls of the sender thread, recv calls of the receiver thread
MaxJobCalls == 2    \* Job calls made by one thread
MaxListeners == 2   \* watch_info calls
MaxInvoked == 2     \* invocations of one callback before on_info is called again

(***************************************************************************)
(* Generic helpers.                                                        *)
(***************************************************************************)
Range(s) == {s[i] : i \in DOMAIN s}

\* An optional value is a set with at most one element: {} is Python's None.
Opt(v) == {v}
NoneV == {}

TheOne(S) == CHOOSE x \in S : TRUE

(***************************************************************************)
(* Type hints.  A hint is a plain class, a types.GenericAlias produced by  *)
(* Integer[...] / Float[...] (origin t, subscript arguments args), an      *)
(* X | Y union (types.UnionType, alternatives alts), or a typing.Optional  *)
(* / typing.Union form.                                                    *)
(***************************************************************************)
Cls(t) == [k |-> "cls", t |-> t, args |-> <<>>, alts |-> <<>>]
Alias(t, args) == [k |-> "alias", t |-> t, args |-> args, alts |-> <<>>]
UnionT(alts) == [k |-> "union", t |-> "", args |-> <<>>, alts |-> alts]
TypingUnion(alts) == [k |-> "typing", t |-> "", args |-> <<>>, alts |-> alts]

\* The direct bases of the classes the resolver distinguishes.
Bases(t) ==
  CASE t = "bool" -> {"int"}
    [] t = "Integer" -> {"int"}
    [] t = "Float" -> {"float"}
    [] t = "Text" -> {"str"}
    [] t = "QuotableText" -> {"str"}
    [] t = "GreedyText" -> {"str"}
    [] t = "Color" -> {"Enum"}
    [] OTHER -> {}

IsSubclass(t, b) == t = b \/ b \in Bases(t)

Ok(v) == [err |-> "", val |-> v]
Raise(e) == [err |-> e, val |-> Cls("")]

\* Integer.__class_getitem__: the subscript arguments are ints or None.
IntegerGetItem(args) ==
  IF Len(args) > 2 THEN Raise("ValueError")
  ELSE IF Len(args) = 2 THEN
    IF args[2] = NoneV THEN Raise("TypeError")
    ELSE IF args[1] # NoneV /\ TheOne(args[1]) > TheOne(args[2]) THEN Raise("ValueError")
    ELSE Ok(Alias("Integer", args))
  ELSE IF Len(args) = 0 THEN Raise("IndexError")
  ELSE IF args[1] = NoneV THEN Raise("NameError")   \* the message reads args[i], i unbound
  ELSE Ok(Alias("Integer", args))

\* Float.__class_getitem__: the two-argument form reads args[i] with i unbound.
FloatGetItem(args) ==
  IF Len(args) > 2 THEN Raise("ValueError")
  ELSE IF Len(args) = 2 THEN Raise("NameError")
  ELSE IF Len(args) = 0 THEN Raise("IndexError")
  ELSE IF args[1] = NoneV THEN Raise("TypeError")
  ELSE Ok(Alias("Float", args))

(***************************************************************************)
(* Host parser nodes (MCDR.AbstractNode and its argument nodes).           *)
(***************************************************************************)
NoCb == [k |-> "none", fn |-> [mw |-> 0, h |-> ""], self |-> 0, i |-> 0]

PNode(kind, name, lits) ==
  [kind |-> kind, name |-> name, lits |-> lits, min |-> NoneV, max |-> NoneV,
   children |-> <<>>, reqs |-> <<>>, cb |-> NoCb]

Then(hp, p, c) == [hp EXCEPT ![p].children = Append(@, c)]
RequiresOn(hp, p, r) == [hp EXCEPT ![p].reqs = Append(@, r)]
Runs(hp, p, cb) == [hp EXCEPT ![p].cb = cb]

\* n.at_min(v) / n.at_max(v) on a node record not yet in the heap.
AtMin(n, v) == [n EXCEPT !.min = Opt(v)]
AtMax(n, v) == [n EXCEPT !.max = Opt(v)]

(***************************************************************************)
(* _get_arg_generator: the hint's class and subscript arguments, then the  *)
(* first matching branch.  The result is the node g(name) would create     *)
(* (GenNode) or the error raised before any node exists (GenErr).          *)
(***************************************************************************)
HintTyp(hint) == IF hint.k \in {"cls", "alias"} THEN hint.t ELSE ""
HintAgs(hint) == IF hint.k = "alias" THEN hint.args ELSE <<>>

GenErr(hint) ==
  IF hint.k \in {"union", "typing"} THEN "TypeError"   \* issubclass() arg 1 must be a class
  ELSE IF \E b \in {"Enum", "bool", "int", "float", "str"} : IsSubclass(HintTyp(hint), b)
       THEN ""
  ELSE "TypeError"

\* def g(name): at_max(ags[1]) when two arguments, at_min(ags[0]) when present.
NumberBounds(n, ags) ==
  LET n1 == IF Len(ags) = 2 /\ ags[2] # NoneV THEN AtMax(n, TheOne(ags[2])) ELSE n
  IN IF Len(ags) > 0 /\ ags[1] # NoneV THEN AtMin(n1, TheOne(ags[1])) ELSE n1

GenNode(hint, name) ==
  LET typ == HintTyp(hint)
      ags == HintAgs(hint)
  IN IF IsSubclass(typ, "Enum") THEN PNode("Enumeration", name, {})
     ELSE IF IsSubclass(typ, "bool") THEN PNode("Boolean", name, {})
     ELSE IF IsSubclass(typ, "int") THEN NumberBounds(PNode("Integer", name, {}), ags)
     ELSE IF IsSubclass(typ, "float") THEN NumberBounds(PNode("Float", name, {}), ags)
     ELSE IF IsSubclass(typ, "QuotableText") THEN PNode("QuotableText", name, {})
     ELSE IF IsSubclass(typ, "GreedyText") THEN PNode("GreedyText", name, {})
     ELSE PNode("Text", name, {})

(***************************************************************************)
(* Handlers.  A handler is (self, source, p1, ..., pk); params are the     *)
(* parameters after the source, each with the expression of its annotation,*)
(* defs the defaults of the trailing parameters, src_ok whether the source *)
(* parameter is annotated with a CommandSource type.                       *)
(***************************************************************************)
ECls(t) == [e |-> "cls", t |-> t, args |-> <<>>, alts |-> <<>>]
ESub(t, args) == [e |-> "sub", t |-> t, args |-> args, alts |-> <<>>]
EUnion(alts) == [e |-> "union", t |-> "", args |-> <<>>, alts |-> alts]
ETyping(alts) == [e |-> "typing", t |-> "", args |-> <<>>, alts |-> alts]

\* Evaluating the annotation when the def statement runs.
EvalHint(x) ==
  IF x.e = "sub" THEN (IF x.t = "Integer" THEN IntegerGetItem(x.args) ELSE FloatGetItem(x.args))
  ELSE IF x.e = "union" THEN Ok(UnionT(x.alts))
  ELSE IF x.e = "typing" THEN Ok(TypingUnion(x.alts))
  ELSE Ok(Cls(x.t))

P(name, x) == [name |-> name, x |-> x]
Handler(params, defs) == [params |-> params, defs |-> defs, src_ok |-> TRUE]

Handlers ==
  {"h0", "h1", "hb", "hm", "hf", "hd1", "h2", "hu", "hun", "hopt", "hd", "hud", "hub", "hx"}

Sig(h) ==
  CASE h = "h0" -> Handler(<<>>, <<>>)
    [] h = "h1" -> Handler(<<P("n", ECls("int"))>>, <<>>)
    [] h = "hb" -> Handler(<<P("n", ESub("Integer", <<Opt(0), Opt(10)>>))>>, <<>>)
    [] h = "hm" -> Handler(<<P("n", ESub("Integer", <<Opt(7)>>))>>, <<>>)
    [] h = "hf" -> Handler(<<P("x", ESub("Float", <<Opt(0), Opt(10)>>))>>, <<>>)
    [] h = "hd1" -> Handler(<<P("n", ECls("int"))>>, <<3>>)
    [] h = "h2" -> Handler(<<P("a", ECls("int")), P("b", ECls("int"))>>, <<>>)
    [] h = "hu" -> Handler(<<P("a", EUnion(<<"int", "QuotableText">>))>>, <<>>)
    [] h = "hun" -> Handler(<<P("a", EUnion(<<"int", "NoneType">>))>>, <<>>)
    [] h = "hopt" -> Handler(<<P("a", ETyping(<<"int", "NoneType">>))>>, <<>>)
    [] h = "hd" -> Handler(<<P("a", ECls("int")), P("b", ECls("int")), P("c", ECls("int"))>>,
                           <<1, 2>>)
    [] h = "hud" -> Handler(<<P("a", EUnion(<<"int", "str">>))>>, <<1>>)
    [] h = "hub" -> Handler(<<P("a", EUnion(<<"int", "str">>)), P("b", ECls("int"))>>, <<>>)
    [] OTHER -> [Handler(<<P("n", ECls("int"))>>, <<>>) EXCEPT !.src_ok = FALSE]

ParamNames(h) == [i \in DOMAIN Sig(h).params |-> Sig(h).params[i].name]

\* The first annotation whose evaluation raises, in parameter order ("" if none).
RECURSIVE FirstHintErr(_)
FirstHintErr(ps) ==
  IF ps = <<>> THEN ""
  ELSE IF EvalHint(Head(ps).x).err # "" THEN EvalHint(Head(ps).x).err
  ELSE FirstHintErr(Tail(ps))

(***************************************************************************)
(* Requirements and MiddleWare.                                            *)
(***************************************************************************)
Req(k, level, msg) == [k |-> k, level |-> level, msg |-> msg]

\* Mutant: the level compared against is one too low.
WrapPermissionOffByOne(level, hint) ==
  Req("perm", level - 1, IF hint = NoneV THEN "permission.denied0" ELSE TheOne(hint))

\* _wrap_permission for an integer level and a hint that is None or a str.
WrapPermission(level, hint) ==
  Req("perm", level, IF hint = NoneV THEN "permission.denied0" ELSE TheOne(hint))

PlayerReq == Req("player", 0, "command.player_only")
ConsoleReq == Req("console", 0, "command.console_only")

\* What a decorated object is: the MiddleWare on top (0 for a plain function)
\* and the function get_origin_func unwraps it to.
Target(mw, h) == [mw |-> mw, h |-> h]

\* MiddleWare.__new__.wrapper(fn) of a fresh Requires: _last is the wrapped
\* MiddleWare (or None), _fn the function under it; `over` is the kpi Node
\* the decorator was applied to (0 when it was applied to a function).
NewMW(req, at_base, target) ==
  [req |-> req, at_base |-> at_base, fn |-> target.h, last |-> target.mw, over |-> 0]

(***************************************************************************)
(* Node.__new__.wrapper, automatic inference (arg_wrapper is None and no   *)
(* args chain was given).  The frontier list `nodes` starts as the tuple   *)
(* ([], base); the loops that unpack `for _, n in nodes` need tuples, while*)
(* every later frontier entry is stored as a bare parser node.             *)
(***************************************************************************)
Tup(n) == [tup |-> TRUE, n |-> n]
Bare(n) == [tup |-> FALSE, n |-> n]

AllTup(nodes) == \A j \in DOMAIN nodes : nodes[j].tup

BSt(hp, nodes, entries, err) == [hp |-> hp, nodes |-> nodes, entries |-> entries, err |-> err]

\* for _, n in nodes: n.runs(cb); self._entries.append(n)
RECURSIVE RunsEach(_, _, _, _)
RunsEach(hp, nodes, cb, entries) ==
  IF nodes = <<>> THEN [hp |-> hp, entries |-> entries]
  ELSE RunsEach(Runs(hp, Head(nodes).n, cb), Tail(nodes), cb, Append(entries, Head(nodes).n))

\* for _, m in nodes: n = g(name); m.then(n); <collect n>
RECURSIVE AttachEach(_, _, _, _)
AttachEach(hp, nodes, rec, acc) ==
  IF nodes = <<>> THEN [hp |-> hp, new |-> acc]
  ELSE LET id == Len(hp) + 1
       IN AttachEach(Then(Append(hp, rec), Head(nodes).n, id), Tail(nodes), rec,
                     Append(acc, Bare(id)))

\* Require.get_require(hint): is_optional(hint.__origin__) reads __origin__ of
\* the origin, which a class (Integer, Float) and typing.Union do not have.
GetRequireErr(hint) == IF hint.k \in {"alias", "typing"} THEN "AttributeError" ELSE ""

\* The union branch: one generator per alternative, applied to the old frontier.
RECURSIVE UnionAlts(_, _, _, _, _)
UnionAlts(hp, nodes0, alts, name, acc) ==
  IF alts = <<>> THEN BSt(hp, acc, <<>>, "")
  ELSE IF GenErr(Cls(Head(alts))) # "" THEN BSt(hp, acc, <<>>, GenErr(Cls(Head(alts))))
  ELSE IF ~AllTup(nodes0) THEN BSt(hp, acc, <<>>, "TypeError")
  ELSE LET r == AttachEach(hp, nodes0, GenNode(Cls(Head(alts)), name), <<>>)
       IN UnionAlts(r.hp, nodes0, Tail(alts), name, acc \o r.new)

DefargCb(fn, self, i) == [k |-> "defarg", fn |-> fn, self |-> self, i |-> i]
PlainCb(fn, self) == [k |-> "plain", fn |-> fn, self |-> self, i |-> 0]

\* One iteration of `for i, name in enumerate(args)` (i counts from 0).
ParamStep(st, i, h, fn, self) ==
  LET sig == Sig(h)
      p == sig.params[i + 1]
      hint == EvalHint(p.x).val
      hasDef == Len(sig.defs) + i >= Len(sig.params)
      d == IF hasDef /\ AllTup(st.nodes)
           THEN RunsEach(st.hp, st.nodes, DefargCb(fn, self, i), st.entries)
           ELSE [hp |-> st.hp, entries |-> st.entries]
  IN IF hasDef /\ ~AllTup(st.nodes) THEN [st EXCEPT !.err = "TypeError"]
     ELSE IF GetRequireErr(hint) # "" THEN [st EXCEPT !.err = GetRequireErr(hint)]
     ELSE IF hint.k = "union" THEN
       LET u == UnionAlts(d.hp, st.nodes, hint.alts, p.name, <<>>)
       IN BSt(u.hp, u.nodes, d.entries, u.err)
     ELSE IF GenErr(hint) # "" THEN [st EXCEPT !.err = GenErr(hint)]
     ELSE IF ~AllTup(st.nodes) THEN [st EXCEPT !.err = "TypeError"]
     ELSE LET r == AttachEach(d.hp, st.nodes, GenNode(hint, p.name), <<>>)
          IN BSt(r.hp, r.new, d.entries, "")

RECURSIVE ParamLoop(_, _, _, _, _)
ParamLoop(st, i, h, fn, self) ==
  IF st.err # "" \/ i >= Len(Sig(h).params) THEN st
  ELSE ParamLoop(ParamStep(st, i, h, fn, self), i + 1, h, fn, self)

\* for n in nodes: if n not in self._entries: n.runs(...); self._entries.append(n)
RECURSIVE FinalLoop(_, _, _)
FinalLoop(st, rest, cb) ==
  IF st.err # "" \/ rest = <<>> THEN st
  ELSE IF Head(rest).tup
       THEN [st EXCEPT !.err = "AttributeError"]   \* a tuple has no runs
  ELSE IF Head(rest).n \in Range(st.entries) THEN FinalLoop(st, Tail(rest), cb)
  ELSE FinalLoop(BSt(Runs(st.hp, Head(rest).n, cb), st.nodes,
                     Append(st.entries, Head(rest).n), ""), Tail(rest), cb)

\* Node.requires(requirement, msg, at_base=...)
RECURSIVE RequiresEach(_, _, _)
RequiresEach(hp, es, r) ==
  IF es = <<>> THEN hp ELSE RequiresEach(RequiresOn(hp, Head(es), r), Tail(es), r)

\* Mutant: at_base is ignored, the base is always the target.
NodeRequiresAlwaysBase(hp, base, entries, r, at_base) == RequiresOn(hp, base, r)

\* Mutant: each call replaces the guard attached before it.
NodeRequiresReplacing(hp, base, entries, r, at_base) ==
  [hp EXCEPT ![base].reqs = <<r>>]

NodeRequires(hp, base, entries, r, at_base) ==
  IF at_base THEN RequiresOn(hp, base, r) ELSE RequiresEach(hp, entries, r)

\* while True: mw.trigger(self); if mw.last is None: break; mw = mw.last
RECURSIVE TriggerChain(_, _, _, _, _)
TriggerChain(hp, ms, mw, base, entries) ==
  LET hp1 == NodeRequires(hp, base, entries, ms[mw].req, ms[mw].at_base)
  IN IF ms[mw].last = 0 THEN hp1 ELSE TriggerChain(hp1, ms, ms[mw].last, base, entries)

\* Whether following `last` from mw comes back to a MiddleWare already
\* visited: the loop of the wrapper then never reaches `mw.last is None`.
RECURSIVE LastNeverNone(_, _, _)
LastNeverNone(ms, mw, steps) ==
  IF mw = 0 THEN FALSE
  ELSE IF steps > Len(ms) THEN TRUE
  ELSE LastNeverNone(ms, ms[mw].last, steps + 1)

\* if requires is not None: for req, msg in requires: self.node.requires(req, msg)
RECURSIVE RequiresList(_, _, _)
RequiresList(hp, base, requires) ==
  IF requires = <<>> THEN hp
  ELSE RequiresList(RequiresOn(hp, base, Head(requires)), base, Tail(requires))

\* nodes = [([], self.node)], after the check of the source parameter.
Frontier0(hp, base, fn) ==
  BSt(hp, <<Tup(base)>>, <<>>, IF Sig(fn.h).src_ok THEN "" ELSE "TypeError")

FinalAll(st, cb) == FinalLoop(st, st.nodes, cb)
FinalFirst(st, cb) == FinalLoop(st, SubSeq(st.nodes, 1, 1), cb)

\* The end of the wrapper: the requires list, then the MiddleWare chain.
\* "NoReturn" stands for a walk of the chain that never ends.
Guarded(st, ms, base, fn, requires) ==
  IF st.err # "" THEN st
  ELSE IF fn.mw = 0 THEN [st EXCEPT !.hp = RequiresList(st.hp, base, requires)]
  ELSE IF LastNeverNone(ms, fn.mw, 1) THEN [st EXCEPT !.err = "NoReturn"]
  ELSE [st EXCEPT !.hp = TriggerChain(RequiresList(st.hp, base, requires), ms, fn.mw, base,
                                      st.entries)]

\* Mutant: only the first frontier node is bound as an entry.
NodeWrapperFirstOnly(hp, ms, base, fn, self, requires) ==
  Guarded(FinalFirst(ParamLoop(Frontier0(hp, base, fn), 0, fn.h, fn, self), PlainCb(fn, self)),
          ms, base, fn, requires)

\* The whole wrapper for a Node whose base parser node is `base`.
NodeWrapper(hp, ms, base, fn, self, requires) ==
  Guarded(FinalAll(ParamLoop(Frontier0(hp, base, fn), 0, fn.h, fn, self), PlainCb(fn, self)),
          ms, base, fn, requires)

(***************************************************************************)
(* Literal.__new__ and the attributes its wrapper records after binding.   *)
(* A literal argument is a str (list = FALSE, one name) or a list of str.  *)
(***************************************************************************)
LitStr(a) == [list |-> FALSE, names |-> <<a>>]
LitList(as) == [list |-> TRUE, names |-> as]

LiteralErr(lit) == IF lit.list /\ lit.names = <<>> THEN "TypeError" ELSE ""

\* Mutant: the last keyword instead of the first.
LiteralOfLast(lit) == lit.names[Len(lit.names)]

\* self._literal / self._literals
LiteralOf(lit) == lit.names[1]
LiteralsOf(lit) == lit.names

\* MCDR.Literal(literal): the host keeps the keywords as a set.
HostLiteral(lit) == PNode("Literal", "", Range(lit.names))

KNode(base, entries, fn, top, lit) ==
  [node |-> base, entries |-> entries, owner |-> 0, fn |-> fn, top |-> top,
   literal |-> LiteralOf(lit), literals |-> LiteralsOf(lit), cls |-> 0]

(***************************************************************************)
(* CommandSet.                                                             *)
(***************************************************************************)
ClassDecl(ovHelp, ovDefault, prefix, helpmsg) ==
  [ovHelp |-> ovHelp, ovDefault |-> ovDefault, prefix |-> prefix, helpmsg |-> helpmsg]

\* The class bodies the model declares: which of help / default the class
\* overrides, its Prefix and its HelpMessage (None when not declared).
ClassDecls ==
  { ClassDecl(FALSE, FALSE, Opt("pre"), Opt("hm")),
    ClassDecl(TRUE, FALSE, Opt("pre"), NoneV),
    ClassDecl(FALSE, TRUE, NoneV, Opt("hm")),
    ClassDecl(TRUE, TRUE, Opt("pre"), Opt("hm")) }

NodeRef(id) == [t |-> "node", id |-> id]
MwRef(id) == [t |-> "mw", id |-> id]
SetRef(id) == [t |-> "set", id |-> id]

\* The class attribute a bound Node is reached by: the MiddleWare applied
\* over it when there is one, else the Node.
MemberOf(ms, j) ==
  IF \E m \in DOMAIN ms : ms[m].over = j
  THEN MwRef(CHOOSE m \in DOMAIN ms : ms[m].over = j)
  ELSE NodeRef(j)

\* __init_subclass__: the members of the class body, in definition order.
RECURSIVE Members(_, _, _)
Members(ms, kn, j) ==
  IF j > Len(kn) THEN <<>>
  ELSE (IF kn[j].cls = 0 THEN <<MemberOf(ms, j)>> ELSE <<>>) \o Members(ms, kn, j + 1)

\* The CommandSet instances among the members, in definition order.
RECURSIVE SetRefs(_)
SetRefs(S) ==
  IF S = {} THEN <<>>
  ELSE LET i == CHOOSE x \in S : \A y \in S : x <= y
       IN <<SetRef(i)>> \o SetRefs(S \ {i})

\* The node argument of a construction: nothing, a host Literal built
\* by the caller from a list of keywords, or an object of another type.
NodeArgs == {"none", "lits", "bad"}
ArgLits == <<"save", "s">>

HelpCb(inst) == [k |-> "help", fn |-> Target(0, "help"), self |-> inst, i |-> 0]
DefaultCb(inst) == [k |-> "default", fn |-> Target(0, "default"), self |-> inst, i |-> 0]

\* Mutant: __new__ without the check of the slot.
NewNeverRaises(cl) == FALSE

\* CommandSet.__new__: the singleton rule.
NewRaises(cl) == cl.instance # 0

\* AbstractNode.requires on a CommandSet: self.node.requires(...), where
\* self.node reads self._node (set_node = 0 while it is not assigned yet).
SetRequires(hp, set_node, r) ==
  IF set_node = 0 THEN [hp |-> hp, err |-> "AttributeError"]
  ELSE [hp |-> RequiresOn(hp, set_node, r), err |-> ""]

\* for n in cls._nodes: ... node.then(n.node).  self._node is assigned
\* after the loop, so a MiddleWare member's trigger finds it unset.
RECURSIVE ChildLoop(_, _, _, _, _, _, _)
ChildLoop(hp, kn, ins, ms, refs, node, self) ==
  IF refs = <<>> THEN [hp |-> hp, kn |-> kn, ins |-> ins, err |-> ""]
  ELSE IF Head(refs).t = "node"
  THEN ChildLoop(Then(hp, node, kn[Head(refs).id].node),
                 [kn EXCEPT ![Head(refs).id].owner = self], ins, ms, Tail(refs), node, self)
  ELSE IF Head(refs).t = "set"
  THEN ChildLoop(Then(hp, node, ins[Head(refs).id].node), kn,
                 [ins EXCEPT ![Head(refs).id].parent = self], ms, Tail(refs), node, self)
  ELSE [hp |-> hp, kn |-> kn, ins |-> ins,
        err |-> SetRequires(hp, 0, ms[Head(refs).id].req).err]

\* Mutant: help is preferred over default.
FallbackHelpFirst(cl, default_help, self) ==
  IF default_help /\ cl.ovHelp THEN HelpCb(self)
  ELSE IF cl.ovDefault THEN DefaultCb(self)
  ELSE NoCb

\* The fallback action of the base node.
Fallback(cl, default_help, self) ==
  IF cl.ovDefault THEN DefaultCb(self)
  ELSE IF default_help /\ cl.ovHelp THEN HelpCb(self)
  ELSE NoCb

\* self._help_node: the 'help' child, when the class overrides help.
WithHelp(hp, cl, node, self) ==
  IF cl.ovHelp
  THEN Then(Append(hp, [PNode("Literal", "", {"help"}) EXCEPT !.cb = HelpCb(self)]),
            node, Len(hp) + 1)
  ELSE hp

\* The base node's own action.
WithFallback(hp, fb, node) == IF fb.k = "none" THEN hp ELSE Runs(hp, node, fb)

\* What is left of __init__ after the child loop ended in c.
AfterChildren(c, cl, node, default_help, self) ==
  IF c.err # "" THEN [hp |-> c.hp, kn |-> c.kn, ins |-> c.ins, err |-> c.err, help |-> 0]
  ELSE [hp |-> WithFallback(WithHelp(c.hp, cl, node, self),
                            Fallback(cl, default_help, self), node),
        kn |-> c.kn, ins |-> c.ins, err |-> "",
        help |-> IF cl.ovHelp THEN Len(c.hp) + 1 ELSE 0]

\* CommandSet.__init__ once the base node `node` is resolved.
InitSet(hp, kn, ins, ms, cl, node, default_help, self) ==
  AfterChildren(ChildLoop(hp, kn, ins, ms, cl.nodes, node, self), cl, node, default_help, self)

(***************************************************************************)
(* The host's dispatch of a command: the words after the root literal are  *)
(* consumed one parser node at a time.  A node's requirements are checked  *)
(* when it is entered; with no word left its bound action runs; otherwise  *)
(* the first literal child holding the word, else the first argument child *)
(* whose parser accepts the word, is entered.                              *)
(***************************************************************************)
IntV(i) == [t |-> "int", i |-> i, s |-> ""]
StrV(w) == [t |-> "str", i |-> 0, s |-> w]

IsInt(w) == w \in {"5", "11"}
IntOf(w) == IF w = "5" THEN 5 ELSE 11

InBounds(n, v) ==
  /\ (n.min # NoneV => v >= TheOne(n.min))
  /\ (n.max # NoneV => v <= TheOne(n.max))

Accepts(n, w) ==
  CASE n.kind = "Literal" -> w \in n.lits
    [] n.kind \in {"Integer", "Float"} -> IsInt(w) /\ InBounds(n, IntOf(w))
    [] n.kind = "Boolean" -> w \in {"true", "false"}
    [] n.kind = "Enumeration" -> FALSE
    [] OTHER -> TRUE

Parsed(n, w) == IF n.kind \in {"Integer", "Float"} THEN IntV(IntOf(w)) ELSE StrV(w)

\* A player of permission level 1..3, or the console (level 4).
Sources ==
  {[is_player |-> TRUE, level |-> l] : l \in 1..3} \cup {[is_player |-> FALSE, level |-> 4]}

ReqPass(r, src) ==
  CASE r.k = "player" -> src.is_player
    [] r.k = "console" -> ~src.is_player
    [] r.k = "perm" -> src.level >= r.level     \* src.has_permission(level)
    [] OTHER -> TRUE

FirstFailing(reqs, src) ==
  LET bad == {j \in DOMAIN reqs : ~ReqPass(reqs[j], src)}
  IN IF bad = {} THEN 0 ELSE CHOOSE j \in bad : \A l \in bad : j <= l

FirstChild(hp, p, w) ==
  LET ch == hp[p].children
      lit == {j \in DOMAIN ch : hp[ch[j]].kind = "Literal" /\ Accepts(hp[ch[j]], w)}
      arg == {j \in DOMAIN ch : hp[ch[j]].kind # "Literal" /\ Accepts(hp[ch[j]], w)}
      pick(S) == ch[CHOOSE j \in S : \A l \in S : j <= l]
  IN IF lit # {} THEN pick(lit) ELSE IF arg # {} THEN pick(arg) ELSE 0

\* What a dispatch ends in: called (the call made, and the parser node whose
\* bound action made it), denied (with the message), rejected or unknown.
NoCall == [h |-> "", owner |-> 0, args |-> <<>>]
Result(res, call, msg, via) == [res |-> res, call |-> call, msg |-> msg, via |-> via]

\* The function a decorated object runs when called: MiddleWare.__call__
\* runs self._fn.
Callee(ms, fn) == IF fn.mw = 0 THEN fn.h ELSE ms[fn.mw].fn

\* *defs[len(defs) + i - len(namelist):]
DefaultsFrom(defs, i, n) ==
  LET from == Len(defs) + i - n
  IN [j \in 1..(Len(defs) - from) |-> IntV(defs[from + j])]

\* The bound action at an entry: the lambda of line 359, _defarg_wrapper, or
\* the help / default method of a CommandSet.
Invoke(ms, kn, p, cb, src, ctx) ==
  IF cb.k \in {"help", "default"}
  THEN Result("called", [h |-> cb.k, owner |-> cb.self, args |-> <<>>], "", p)
  ELSE LET fn == cb.fn
           names == ParamNames(fn.h)
           taken == IF cb.k = "defarg" THEN SubSeq(names, 1, cb.i) ELSE names
           rest == IF cb.k = "defarg"
                   THEN DefaultsFrom(Sig(fn.h).defs, cb.i, Len(names)) ELSE <<>>
       IN IF \E j \in DOMAIN taken : taken[j] \notin DOMAIN ctx
          THEN Result("KeyError", NoCall, "", p)
          ELSE Result("called",
                      [h |-> Callee(ms, fn), owner |-> kn[cb.self].owner,
                       args |-> [j \in DOMAIN taken |-> ctx[taken[j]]] \o rest], "", p)

RECURSIVE Exec(_, _, _, _, _, _, _)
Exec(hp, ms, kn, p, words, src, ctx) ==
  LET f == FirstFailing(hp[p].reqs, src)
  IN IF f # 0 THEN Result("denied", NoCall, hp[p].reqs[f].msg, p)
     ELSE IF words = <<>>
     THEN (IF hp[p].cb.k = "none" THEN Result("unknown", NoCall, "", p)
           ELSE Invoke(ms, kn, p, hp[p].cb, src, ctx))
     ELSE LET c == FirstChild(hp, p, Head(words))
          IN IF c = 0 THEN Result("rejected", NoCall, "", p)
             ELSE Exec(hp, ms, kn, c, Tail(words), src,
                       IF hp[c].kind = "Literal" THEN ctx
                       ELSE [x \in DOMAIN ctx \cup {hp[c].name} |->
                               IF x = hp[c].name THEN Parsed(hp[c], Head(words))
                               ELSE ctx[x]])

NoCtx == [x \in {} |-> IntV(0)]

(***************************************************************************)
(* utils.Channel.  The body of send and of recv runs under the condition's *)
(* lock, so each stretch between two waits is one step; cond.wait() gives  *)
(* the lock up and the thread goes on only after a notify_all.  A thread   *)
(* is outside a call ("out"), waiting in the while loop ("wait_loop") or   *)
(* in the else branch ("wait_pair"), or notified and about to go on        *)
(* ("woken_loop", "woken_pair").  `paired` records the value of the send   *)
(* a recv met; it is read by no step.                                      *)
(***************************************************************************)
Senders == {"tx"}
Receivers == {"rx"}
ChannelThreads == Senders \cup Receivers

\* The values passed to send.
Values == {1, 2}

\* Channel.__init__
NewChannel == [status |-> "IDLE", value |-> NoneV]

NewCaller == [pc |-> "out", val |-> 0, paired |-> 0, calls |-> 0]

\* self.cond.notify_all()
NotifyAll(cs) ==
  [t \in DOMAIN cs |->
     IF cs[t].pc = "wait_loop" THEN [cs[t] EXCEPT !.pc = "woken_loop"]
     ELSE IF cs[t].pc = "wait_pair" THEN [cs[t] EXCEPT !.pc = "woken_pair"]
     ELSE cs[t]]

\* The receivers waiting in recv's else branch learn which send they met.
Met(cs, v) ==
  [t \in DOMAIN cs |->
     IF t \in Receivers /\ cs[t].pc = "wait_pair" THEN [cs[t] EXCEPT !.paired = v] ELSE cs[t]]

\* The value of the send that waits in send's else branch.
PendingSend(cs) ==
  IF \E t \in Senders : cs[t].pc \in {"wait_pair"}
  THEN cs[CHOOSE t \in Senders : cs[t].pc \in {"wait_pair"}].val
  ELSE 0

Returned(c) == [c EXCEPT !.pc = "out", !.calls = @ + 1]

\* Channel.send from the while loop on, for thread t sending v.
SendBody(t, v) ==
  IF channel.status = "SENDING"
  THEN /\ callers' = [callers EXCEPT ![t].pc = "wait_loop", ![t].val = v]
       /\ outcome' = [op |-> "send", err |-> "", by |-> t, returned |-> FALSE]
       /\ UNCHANGED channel
  ELSE IF channel.status = "RECVING"
  THEN /\ channel' = [status |-> "IDLE", value |-> Opt(v)]
       /\ callers' = [NotifyAll(Met(callers, v)) EXCEPT ![t] = Returned(callers[t])]
       /\ outcome' = [op |-> "send", err |-> "", by |-> t, returned |-> TRUE]
  ELSE /\ channel' = [channel EXCEPT !.status = "SENDING"]
       /\ callers' = [callers EXCEPT ![t].pc = "wait_pair", ![t].val = v]
       /\ outcome' = [op |-> "send", err |-> "", by |-> t, returned |-> FALSE]

\* Channel.recv from the while loop on, for thread t.
RecvBody(t) ==
  IF channel.status = "RECVING"
  THEN /\ callers' = [callers EXCEPT ![t].pc = "wait_loop"]
       /\ outcome' = [op |-> "recv", err |-> "", by |-> t, returned |-> FALSE]
       /\ UNCHANGED channel
  ELSE IF channel.status = "SENDING"
  THEN /\ channel' = [channel EXCEPT !.status = "IDLE"]
       /\ callers' = [NotifyAll(callers) EXCEPT ![t] = Returned(callers[t])]
       /\ outcome' = [op |-> "recv", err |-> "", by |-> t, returned |-> TRUE,
                      got |-> channel.value, paired |-> PendingSend(callers),
                      first |-> "sender"]
  ELSE /\ channel' = [channel EXCEPT !.status = "RECVING"]
       /\ callers' = [callers EXCEPT ![t].pc = "wait_pair"]
       /\ outcome' = [op |-> "recv", err |-> "", by |-> t, returned |-> FALSE]

\* A thread calls ch.send(v).
Send(t, v) ==
  /\ t \in Senders
  /\ callers[t].pc = "out"
  /\ callers[t].calls < MaxCalls
  /\ SendBody(t, v)
  /\ UNCHANGED <<manager, workers, listeners>>

\* A notified sender goes on: around the loop once more, or after the wait
\* of the else branch, where it stores its value and returns.
SendResume(t) ==
  /\ t \in Senders
  /\ callers[t].pc \in {"woken_loop", "woken_pair"}
  /\ IF callers[t].pc = "woken_loop"
     THEN SendBody(t, callers[t].val)
     ELSE /\ channel' = [channel EXCEPT !.value = Opt(callers[t].val)]
          /\ callers' = [callers EXCEPT ![t] = Returned(callers[t])]
          /\ outcome' = [op |-> "send", err |-> "", by |-> t, returned |-> TRUE]
  /\ UNCHANGED <<manager, workers, listeners>>

\* A thread calls ch.recv().
Recv(t) ==
  /\ t \in Receivers
  /\ callers[t].pc = "out"
  /\ callers[t].calls < MaxCalls
  /\ RecvBody(t)
  /\ UNCHANGED <<manager, workers, listeners>>

\* A notified receiver goes on: around the loop once more, or after the
\* wait of the else branch, where it returns self._value.
RecvResume(t) ==
  /\ t \in Receivers
  /\ callers[t].pc \in {"woken_loop", "woken_pair"}
  /\ IF callers[t].pc = "woken_loop"
     THEN RecvBody(t)
     ELSE /\ callers' = [callers EXCEPT ![t] = Returned(callers[t])]
          /\ outcome' = [op |-> "recv", err |-> "", by |-> t, returned |-> TRUE,
                         got |-> channel.value, paired |-> callers[t].paired,
                         first |-> "receiver"]
          /\ UNCHANGED channel
  /\ UNCHANGED <<manager, workers, listeners>>

(***************************************************************************)
(* utils.Job and utils.JobManager.  The manager's slot _l.d is None or the *)
(* list [job, count]; every access is made under the manager's reentrant   *)
(* lock, so each stretch between two waits is one step.  A thread is       *)
(* outside a call ("idle"), waiting in begin ("waiting"), notified and     *)
(* about to go round begin's loop ("woken"), in the job's callable         *)
(* ("running"), or past it and about to call after() ("finishing").        *)
(***************************************************************************)
WorkerThreads == {"w1", "w2", "w3"}

\* JobManager.__init__
NewManager == [d |-> NoneV]

NewWorker == [pc |-> "idle", block |-> FALSE, raised |-> FALSE, calls |-> 0, ran |-> 0]

\* Mutant: begin takes the slot whatever it holds.
SlotFreeAlways(d) == TRUE

\* begin: if self._l.d is None or self._l.d is False
SlotFree(d) == d = NoneV

\* begin(job, block=True) from the top of its loop, for thread w: take the
\* slot and return True, or wait.
Begin(w, blk) ==
  IF SlotFree(manager.d)
  THEN /\ manager' = [manager EXCEPT !.d = Opt([job |-> w, n |-> 1])]
       /\ workers' = [workers EXCEPT ![w].pc = "running", ![w].block = blk]
  ELSE /\ workers' = [workers EXCEPT ![w].pc = "waiting", ![w].block = blk]
       /\ UNCHANGED manager

\* A thread calls a Job made with block = blk.
Call(w, blk) ==
  /\ w \in WorkerThreads
  /\ workers[w].pc = "idle"
  /\ workers[w].calls < MaxJobCalls
  /\ IF manager.d # NoneV /\ ~blk
     THEN /\ workers' = [workers EXCEPT ![w].calls = @ + 1, ![w].block = blk]
          /\ UNCHANGED manager
     ELSE Begin(w, blk)
  /\ outcome' = [op |-> "call", err |-> "", by |-> w, block |-> blk,
                 busy |-> manager.d # NoneV,
                 none |-> manager.d # NoneV /\ ~blk, ran |-> workers[w].ran]
  /\ UNCHANGED <<channel, callers, listeners>>

\* A notified thread goes round begin's loop once more.
Resume(w) ==
  /\ w \in WorkerThreads
  /\ workers[w].pc = "woken"
  /\ Begin(w, workers[w].block)
  /\ outcome' = [op |-> "resume", err |-> "", by |-> w]
  /\ UNCHANGED <<channel, callers, listeners>>

\* The job's callable ends: it returns or it raises.
Finish(w, raises) ==
  /\ w \in WorkerThreads
  /\ workers[w].pc = "running"
  /\ workers' = [workers EXCEPT ![w].pc = "finishing", ![w].raised = raises, ![w].ran = @ + 1]
  /\ outcome' = [op |-> "finish", err |-> IF raises THEN "Exception" ELSE "", by |-> w]
  /\ UNCHANGED <<manager, channel, callers, listeners>>

\* Mutant: after() wakes nobody.
NotifyNobody(ws, pick) == ws

\* self._l.l.notify(): one waiting thread, if there is any, is woken.
Notify(ws, pick) ==
  IF pick \in DOMAIN ws /\ ws[pick].pc = "waiting" THEN [ws EXCEPT ![pick].pc = "woken"] ELSE ws

\* The threads notify() may wake; a thread that is not waiting stands for
\* the call that finds nobody to wake.
Wakeable(ws) ==
  IF \E x \in DOMAIN ws : ws[x].pc = "waiting"
  THEN {x \in DOMAIN ws : ws[x].pc = "waiting"}
  ELSE {""}

\* after(), the count taken down from n.
Released(w, n, pick) ==
  IF n - 1 = 0
  THEN /\ manager' = [manager EXCEPT !.d = NoneV]
       /\ workers' = Notify([workers EXCEPT ![w].pc = "idle", ![w].calls = @ + 1], pick)
  ELSE /\ manager' = [manager EXCEPT !.d = Opt([TheOne(manager.d) EXCEPT !.n = n - 1])]
       /\ workers' = [workers EXCEPT ![w].pc = "idle", ![w].calls = @ + 1]

\* The finally clause of Job.__call__: self._manager.after(), then the
\* call returns the callable's result or lets its exception through.
After(w, pick) ==
  /\ w \in WorkerThreads
  /\ workers[w].pc = "finishing"
  /\ pick \in Wakeable(workers)
  /\ IF manager.d # NoneV
     THEN Released(w, TheOne(manager.d).n, pick)
     ELSE /\ workers' = [workers EXCEPT ![w].pc = "idle", ![w].calls = @ + 1]
          /\ UNCHANGED manager
  /\ outcome' = [op |-> "return", err |-> IF workers[w].raised THEN "Exception" ELSE "",
                 by |-> w]
  /\ UNCHANGED <<channel, callers, listeners>>

(***************************************************************************)
(* api.watch_info and api.on_info.  A listener is the closure made by one  *)
(* watch_info call: its flag, its once, filterc and callback.  `calls`     *)
(* counts the invocations of the callback and `canceled` records that the  *)
(* canceler was called; no step reads them.  An info's content is None or  *)
(* a string, written as a sequence of characters.                          *)
(***************************************************************************)
Str(cs) == Opt(cs)
Contents == {NoneV, Str(<<"a", "b">>), Str(<<"x", "a", "b">>), Str(<<"a", "b", "x">>), Str(<<"x">>)}

\* filterc: None, a str, a compiled pattern (a literal, or a literal followed
\* by .*), a callable (the contents it returns a true value for), or an
\* object of another type.
NoFilter == [k |-> "none", s |-> <<>>, open |-> FALSE, yes |-> {}]
StrFilter(cs) == [k |-> "str", s |-> cs, open |-> FALSE, yes |-> {}]
PatFilter(cs, open) == [k |-> "pattern", s |-> cs, open |-> open, yes |-> {}]
FnFilter(yes) == [k |-> "callable", s |-> <<>>, open |-> FALSE, yes |-> yes]
BadFilter == [k |-> "bad", s |-> <<>>, open |-> FALSE, yes |-> {}]

Filters ==
  {NoFilter, StrFilter(<<"a", "b">>), PatFilter(<<"a", "b">>, FALSE), PatFilter(<<"a", "b">>, TRUE),
   FnFilter({<<"x">>}), BadFilter}

\* filterc in info.content
Contains(cs, sub) ==
  \E i \in 0..(Len(cs) - Len(sub)) : SubSeq(cs, i + 1, i + Len(sub)) = sub

\* filterc.fullmatch(info.content) is not None
FullMatch(f, cs) ==
  IF f.open THEN Len(cs) >= Len(f.s) /\ SubSeq(cs, 1, Len(f.s)) = f.s ELSE cs = f.s

\* The three filter branches of the listener: FALSE where it returns early.
Passes(f, cs) ==
  IF f.k = "pattern" THEN FullMatch(f, cs)
  ELSE IF f.k = "str" THEN Contains(cs, f.s)
  ELSE IF f.k = "callable" THEN cs \in f.yes
  ELSE TRUE

\* The callbacks: one that returns, one that raises.
Callbacks == {"cb", "cb_raises"}

NewListener(cb, f, once) ==
  [flag |-> TRUE, once |-> once, filterc |-> f, callback |-> cb, calls |-> 0, canceled |-> FALSE]

\* Mutant: the listener does not look at its flag.
ListenerIgnoringFlag(l, content) ==
  IF content # NoneV /\ Passes(l.filterc, TheOne(content))
  THEN [l |-> [l EXCEPT !.flag = IF l.once THEN FALSE ELSE @, !.calls = @ + 1], invoked |-> TRUE]
  ELSE [l |-> l, invoked |-> FALSE]

\* listener(server, info): the closure after the call, and whether the
\* callback was invoked.
Listener(l, content) ==
  IF l.flag /\ content # NoneV /\ Passes(l.filterc, TheOne(content))
  THEN [l |-> [l EXCEPT !.flag = IF l.once THEN FALSE ELSE @, !.calls = @ + 1], invoked |-> TRUE]
  ELSE [l |-> l, invoked |-> FALSE]

\* for l in listeners: l(server, info), from listener i on.  An exception
\* of a callback ends the loop.
RECURSIVE InfoLoop(_, _, _, _)
InfoLoop(ls, i, content, invoked) ==
  IF i > Len(ls) THEN [ls |-> ls, invoked |-> invoked, err |-> ""]
  ELSE LET r == Listener(ls[i], content)
       IN IF r.invoked /\ ls[i].callback = "cb_raises"
          THEN [ls |-> [ls EXCEPT ![i] = r.l], invoked |-> invoked \cup {i}, err |-> "Exception"]
          ELSE InfoLoop([ls EXCEPT ![i] = r.l], i + 1, content,
                        IF r.invoked THEN invoked \cup {i} ELSE invoked)

\* watch_info(server, callback, filterc, once=...)
WatchInfo(cb, f, once) ==
  /\ Len(listeners) < MaxListeners
  /\ IF f.k = "bad"
     THEN /\ outcome' = [op |-> "watch", err |-> "TypeError"]
          /\ UNCHANGED listeners
     ELSE /\ listeners' = Append(listeners, NewListener(cb, f, once))
          /\ outcome' = [op |-> "watch", err |-> ""]
  /\ UNCHANGED <<channel, callers, manager, workers>>

\* The canceler returned by the i-th watch_info call is called.
Cancel(i) ==
  /\ i \in DOMAIN listeners
  /\ listeners' = [listeners EXCEPT ![i].flag = FALSE, ![i].canceled = TRUE]
  /\ outcome' = [op |-> "cancel", err |-> "", listener |-> i]
  /\ UNCHANGED <<channel, callers, manager, workers>>

\* on_info(server, info)
OnInfo(content) ==
  /\ \A i \in DOMAIN listeners : listeners[i].calls < MaxInvoked
  /\ LET r == InfoLoop(listeners, 1, content, {})
     IN /\ listeners' = r.ls
        /\ outcome' = [op |-> "info", err |-> r.err, content |-> content, invoked |-> r.invoked]
  /\ UNCHANGED <<channel, callers, manager, workers>>

\* The state of utils.py and api.py before any call.
InitUtils ==
  /\ channel = NewChannel
  /\ callers = [t \in ChannelThreads |-> NewCaller]
  /\ manager = NewManager
  /\ workers = [w \in WorkerThreads |-> NewWorker]
  /\ listeners = <<>>

(***************************************************************************)
(* The state machine.                                                      *)
(***************************************************************************)
Words == {"pre", "save", "s", "help"}

Init ==
  /\ heap = <<>>
  /\ mws = <<>>
  /\ knodes = <<>>
  /\ classes = <<>>
  /\ insts = <<>>
  /\ server = [commands |-> <<>>, help |-> [w \in Words |-> 0]]
  /\ outcome = [op |-> "init", err |-> ""]
  /\ InitUtils

\* The handlers the model wraps in MiddleWare, and the guards it wraps with.
WrapHandlers == {"hud"}
Guards == {PlayerReq, WrapPermission(2, NoneV), WrapPermission(3, Opt("nope"))}

Targets == {Target(0, h) : h \in Handlers} \cup {Target(m, mws[m].fn) : m \in DOMAIN mws}

\* player_only(fn), require_permission(level, hint)(fn): a fresh Requires
\* object applied to a function or to another MiddleWare.
Wrap(req, target) ==
  /\ Len(mws) < MaxMW
  /\ Len(knodes) < MaxNodes
  /\ target.mw = 0 => target.h \in WrapHandlers
  /\ mws' = Append(mws, NewMW(req, TRUE, target))
  /\ outcome' = [op |-> "wrap", err |-> ""]
  /\ UNCHANGED <<heap, knodes, classes, insts, server>>

Lits == {LitStr("save"), LitList(<<"save", "s">>), LitList(<<>>)}

\* The exception a binding ends with ("" for none): from Literal.__new__,
\* from an annotation of the def statement, or from the wrapper (result r).
BindErr(lit, fn, r) ==
  IF LiteralErr(lit) # "" THEN LiteralErr(lit)
  ELSE IF fn.mw = 0 /\ FirstHintErr(Sig(fn.h).params) # "" THEN FirstHintErr(Sig(fn.h).params)
  ELSE r.err

\* The new Node is kept when the wrapper returned it.
Stored(lit, fn, requires, r, err) ==
  /\ IF err = ""
     THEN /\ heap' = r.hp
          /\ knodes' = Append(knodes, KNode(Len(heap) + 1, r.entries, Callee(mws, fn), fn, lit))
     ELSE UNCHANGED <<heap, knodes>>
  /\ outcome' = [op |-> "bind", err |-> err, h |-> fn.h, mw |-> fn.mw, lit |-> lit,
                 node |-> IF err = "" THEN Len(knodes) + 1 ELSE 0, requires |-> requires]

Bound(lit, fn, requires, r) == Stored(lit, fn, requires, r, BindErr(lit, fn, r))

\* @Literal(lit, requires=...) applied to a function definition or to a
\* MiddleWare; `requires` is the list given at construction (<<>> for None).
Bind(lit, fn, requires, maxn) ==
  /\ Len(knodes) < maxn
  /\ classes = <<>>
  /\ Bound(lit, fn, requires,
           NodeWrapper(Append(heap, HostLiteral(lit)), mws, Len(heap) + 1, fn,
                       Len(knodes) + 1, requires))
  /\ UNCHANGED <<mws, classes, insts, server>>

\* The annotations the model resolves directly: Integer[...] and Float[...]
\* with up to three arguments, each None or a number, and the plain hints.
SubVals == {NoneV} \cup {Opt(v) : v \in 0..MaxArg}
SubArgs == {<<>>} \cup {<<a>> : a \in SubVals} \cup (SubVals \X SubVals)
             \cup (SubVals \X SubVals \X SubVals)
HintExprs ==
  {ESub(t, a) : t \in {"Integer", "Float"}, a \in SubArgs}
    \cup {ECls(t) : t \in {"int", "float", "bool", "str", "Text", "QuotableText",
                           "GreedyText", "Color", "NoneType"}}
    \cup {EUnion(<<"int", "str">>), ETyping(<<"int", "NoneType">>)}

\* _get_arg_generator(hint)("n") for an annotation written as x.
ResolveArg(x) ==
  /\ LET e == EvalHint(x)
         err == IF e.err # "" THEN e.err ELSE GenErr(e.val)
     IN outcome' = [op |-> "resolve", err |-> err, x |-> x,
                    at |-> IF e.err # "" THEN "subscript" ELSE "generator",
                    node |-> IF err = "" THEN GenNode(e.val, "n") ELSE PNode("", "", {})]
  /\ UNCHANGED <<heap, mws, knodes, classes, insts, server>>

\* The constructed sets that no class body holds yet.
FreeSets ==
  {i \in DOMAIN insts :
     /\ insts[i].node # 0
     /\ \A c \in DOMAIN classes : SetRef(i) \notin Range(classes[c].nodes)}

\* class X(CommandSet): the Nodes bound since the last class statement are
\* its members; __init_subclass__ collects them and empties the slot.
\* `sets` are the CommandSet instances bound to names of the class body (a
\* CommandSet subclass found in the body is instantiated on the spot, which
\* is an Instantiate step before this one).
DeclareSubclass(d, sets, maxc) ==
  /\ Len(classes) < maxc
  /\ \A i \in sets : i \in FreeSets
  /\ LET c == Len(classes) + 1
     IN /\ classes' = Append(classes,
              [ovHelp |-> d.ovHelp, ovDefault |-> d.ovDefault, prefix |-> d.prefix,
               helpmsg |-> d.helpmsg, nodes |-> Members(mws, knodes, 1) \o SetRefs(sets),
               instance |-> 0])
        /\ knodes' = [j \in DOMAIN knodes |->
                        IF knodes[j].cls = 0 THEN [knodes[j] EXCEPT !.cls = c] ELSE knodes[j]]
        /\ outcome' = [op |-> "declare", err |-> "", cls |-> c]
  /\ UNCHANGED <<heap, mws, insts, server>>

\* X(node, default_help=...): __new__ then __init__.  An instance records
\* its base node (node), and, when a Literal decorator built it, the base
\* of that decorator's chain (base) and the keywords (literals).
Instantiate(c, arg, default_help) ==
  /\ c \in DOMAIN classes
  /\ LET cl == classes[c]
         self == Len(insts) + 1
         given == IF arg = "none" /\ cl.prefix # NoneV THEN "str" ELSE arg
         node == Len(heap) + 1
         hp0 == Append(heap, IF given = "lits" THEN HostLiteral(LitList(ArgLits))
                             ELSE HostLiteral(LitStr(TheOne(cl.prefix))))
         r == InitSet(hp0, knodes, insts, mws, cl, node, default_help, self)
         out(err) == [op |-> "new", err |-> err, cls |-> c, before |-> cl.instance,
                      arg |-> arg, default_help |-> default_help]
     IN IF NewRaises(cl)
        THEN /\ outcome' = out("RuntimeError")
             /\ UNCHANGED <<heap, knodes, classes, insts>>
        ELSE /\ classes' = [classes EXCEPT ![c].instance = self]
             /\ IF given \in {"none", "bad"}
                THEN /\ insts' = Append(insts, [cls |-> c, node |-> 0, help_node |-> 0,
                                                parent |-> 0, base |-> 0,
                                                literals |-> <<>>])
                     /\ outcome' = out("TypeError")
                     /\ UNCHANGED <<heap, knodes>>
                ELSE /\ heap' = r.hp
                     /\ knodes' = r.kn
                     /\ insts' = Append(r.ins,
                          [cls |-> c, node |-> IF r.err = "" THEN node ELSE 0,
                           help_node |-> r.help, parent |-> 0,
                           base |-> IF r.err = "" THEN node ELSE 0, literals |-> <<>>])
                     /\ outcome' = out(r.err)
  /\ UNCHANGED <<mws, server>>

\* register_to(server)
RegisterTo(i) ==
  /\ i \in DOMAIN insts
  /\ Len(server.commands) < MaxRegs
  /\ LET node == insts[i].node
         helpmsg == classes[insts[i].cls].helpmsg
     IN IF node = 0
        THEN /\ outcome' = [op |-> "register", err |-> "AttributeError", inst |-> i]
             /\ UNCHANGED server
        ELSE /\ server' =
                  [commands |-> Append(server.commands, node),
                   help |-> [w \in Words |->
                               server.help[w]
                                 + IF helpmsg # NoneV /\ w \in heap[node].lits THEN 1 ELSE 0]]
             /\ outcome' = [op |-> "register", err |-> "", inst |-> i]
  /\ UNCHANGED <<heap, mws, knodes, classes, insts>>

\* The commands the model sends: the words after the root literal.
Commands ==
  {<<>>, <<"help">>, <<"save">>, <<"save", "5">>, <<"save", "11">>, <<"save", "abc">>}

\* The host executes the words left for a source at parser node `root`.
Execute(root, src, words) ==
  /\ outcome' = [op |-> "dispatch", err |-> "", root |-> root, src |-> src, words |-> words,
                 r |-> Exec(heap, mws, knodes, root, words, src, NoCtx)]
  /\ UNCHANGED <<heap, mws, knodes, classes, insts, server>>

\* The host runs a registered command for a source.
Dispatch(root, src, words) ==
  /\ root \in Range(server.commands)
  /\ Execute(root, src, words)

\* The host has reached the base of Node k with `words` left.
DispatchAt(k, src, words) ==
  /\ k \in DOMAIN knodes
  /\ Execute(knodes[k].node, src, words)

\* Requires(requirement, getter, at_base=...)(fn): the class used directly.
GuardHandlers == {"hd1", "hu"}
GuardReqs == {PlayerReq, WrapPermission(3, Opt("nope"))}
GuardTargets == {Target(0, h) : h \in GuardHandlers} \cup {Target(m, mws[m].fn) : m \in DOMAIN mws}

Decorate(req, at_base, target) ==
  /\ Len(mws) < MaxMW
  /\ knodes = <<>>
  /\ mws' = Append(mws, NewMW(req, at_base, target))
  /\ outcome' = [op |-> "decorate", err |-> ""]
  /\ UNCHANGED <<heap, knodes, classes, insts, server>>

\* mw.trigger(node) called on a bound Node.
Trigger(m, k) ==
  /\ m \in DOMAIN mws /\ k \in DOMAIN knodes
  /\ \A p \in DOMAIN heap : Len(heap[p].reqs) < MaxReqs
  /\ heap' = NodeRequires(heap, knodes[k].node, knodes[k].entries, mws[m].req, mws[m].at_base)
  /\ outcome' = [op |-> "trigger", err |-> "", mw |-> m, node |-> k]
  /\ UNCHANGED <<mws, knodes, classes, insts, server>>

\* d = require_permission(...); d(f) ... d(g): the decorator object of
\* MiddleWare m applied once more.  The wrapper closes over the one object
\* made by MiddleWare.__new__, assigns its _last and _fn and returns it.
ReuseHandlers == {"hud", "h1"}
ReuseTargets == {Target(0, h) : h \in ReuseHandlers} \cup {Target(m, mws[m].fn) : m \in DOMAIN mws}

Rewrap(m, target) ==
  /\ m \in DOMAIN mws
  /\ mws[m].req.k = "perm"
  /\ mws' = [mws EXCEPT ![m].fn = target.h, ![m].last = target.mw]
  /\ outcome' = [op |-> "rewrap", err |-> "", mw |-> m]
  /\ UNCHANGED <<heap, knodes, classes, insts, server>>

\* player_only / require_permission written above @Literal(...): the
\* decorator is applied to the bound Node k.  functools.wraps copies the
\* Node's attributes into the MiddleWare, its _fn among them.
WrapNode(req, k) ==
  /\ k \in DOMAIN knodes
  /\ knodes[k].cls = 0
  /\ \A m \in DOMAIN mws : mws[m].over # k
  /\ Len(mws) < MaxMW
  /\ mws' = Append(mws, [NewMW(req, TRUE, Target(0, knodes[k].fn)) EXCEPT !.over = k])
  /\ outcome' = [op |-> "wrapnode", err |-> "", node |-> k]
  /\ UNCHANGED <<heap, knodes, classes, insts, server>>

\* CommandSet.rootset: p = self; while p.parent is not None: p = p.parent.
\* 0 stands for a walk that never ends.
RootsetOneUp(ins, i, steps) == IF ins[i].parent = 0 THEN i ELSE ins[i].parent

RECURSIVE Rootset(_, _, _)
Rootset(ins, i, steps) ==
  IF ins[i].parent = 0 THEN i
  ELSE IF steps > Len(ins) THEN 0
  ELSE Rootset(ins, ins[i].parent, steps + 1)

\* Reading s.rootset on a constructed set.
RootsetOf(i) ==
  /\ i \in DOMAIN insts
  /\ insts[i].node # 0
  /\ outcome' = [op |-> "rootset", err |-> "", inst |-> i, root |-> Rootset(insts, i, 1)]
  /\ UNCHANGED <<heap, mws, knodes, classes, insts, server>>

\* Node.__new__ with args: for n in args: node.then(n); node = n.  The
\* result is the heap and the tip of the chain (the base when args is empty
\* or None).
RECURSIVE ArgsChain(_, _, _)
ArgsChain(hp, node, args) ==
  IF args = <<>> THEN [hp |-> hp, node |-> node]
  ELSE ArgsChain(Then(Append(hp, HostLiteral(LitStr(Head(args)))), node, Len(hp) + 1),
                 Len(hp) + 1, Tail(args))

\* The args lists the model passes: none, one node, two nodes.
ArgChains == {SubSeq(<<"n1", "n2">>, 1, n) : n \in 0..MaxChain}

\* wrapper(fn) with fn a CommandSet subclass: return fn(node), node being the
\* tip closed over; then Literal's wrapper records the keywords on the result.
SetUnder(c, lit, args, ch, self, r) ==
  /\ heap' = r.hp
  /\ knodes' = r.kn
  /\ classes' = [classes EXCEPT ![c].instance = self]
  /\ insts' = Append(r.ins,
       [cls |-> c, node |-> IF r.err = "" THEN ch.node ELSE 0, help_node |-> r.help,
        parent |-> 0, base |-> Len(heap) + 1,
        literals |-> IF r.err = "" THEN LiteralsOf(lit) ELSE <<>>])
  /\ outcome' = [op |-> "bindset", err |-> r.err, cls |-> c, lit |-> lit, args |-> args,
                 inst |-> self]

\* @Literal(lit, args=[...]) written above a nested class statement whose
\* class object is c.  When the class already has its instance the chain
\* built by Node.__new__ is referenced by nothing and is left out of the heap.
LiteralOnSet(lit, args, c) ==
  /\ c \in DOMAIN classes
  /\ LiteralErr(lit) = ""
  /\ IF NewRaises(classes[c])
     THEN /\ outcome' = [op |-> "bindset", err |-> "RuntimeError", cls |-> c, lit |-> lit,
                         args |-> args, inst |-> 0]
          /\ UNCHANGED <<heap, knodes, classes, insts>>
     ELSE LET ch == ArgsChain(Append(heap, HostLiteral(lit)), Len(heap) + 1, args)
          IN SetUnder(c, lit, args, ch, Len(insts) + 1,
                      InitSet(ch.hp, knodes, insts, mws, classes[c], ch.node, TRUE,
                              Len(insts) + 1))
  /\ UNCHANGED <<mws, server>>

\* The host has reached the base of set i with `words` left.
DispatchSet(i, src, words) ==
  /\ i \in DOMAIN insts
  /\ insts[i].node # 0
  /\ insts[i].parent = 0
  /\ Execute(insts[i].node, src, words)

\* The class bodies and construction arguments of the nesting lifecycle.
NestDecls == {ClassDecl(FALSE, FALSE, Opt("pre"), NoneV)}
NestMembers == {{}} \cup {{i} : i \in DOMAIN insts}

\* The requires lists the model passes at Node construction.
RequiresLists == {<<>>, <<ConsoleReq>>, <<ConsoleReq, WrapPermission(2, NoneV)>>}

\* The words sent to a Node's own base: nothing, an integer, a text.
EntryCommands == {<<>>, <<"5">>, <<"abc">>}

\* The tree lifecycle: decorators, binding, one command set, dispatch.
Next ==
  \/ \E req \in Guards, t \in Targets : Wrap(req, t) /\ UNCHANGED utilvars
  \/ \E lit \in Lits, t \in Targets : Bind(lit, t, <<>>, MaxNodes) /\ UNCHANGED utilvars
  \/ \E d \in ClassDecls : DeclareSubclass(d, {}, MaxClasses) /\ UNCHANGED utilvars
  \/ \E c \in DOMAIN classes, arg \in NodeArgs, dh \in BOOLEAN : Instantiate(c, arg, dh) /\ UNCHANGED utilvars
  \/ \E i \in DOMAIN insts : RegisterTo(i) /\ UNCHANGED utilvars
  \/ \E root \in DOMAIN heap, src \in Sources, words \in Commands : Dispatch(root, src, words) /\ UNCHANGED utilvars

Spec == Init /\ [][Next]_vars

\* The set lifecycle: several subclasses, construction attempts, dispatch.
NextSets ==
  \/ \E d \in ClassDecls : DeclareSubclass(d, {}, MaxSetClasses) /\ UNCHANGED utilvars
  \/ \E c \in DOMAIN classes, arg \in NodeArgs, dh \in BOOLEAN : Instantiate(c, arg, dh) /\ UNCHANGED utilvars
  \/ \E i \in DOMAIN insts : RegisterTo(i) /\ UNCHANGED utilvars
  \/ \E root \in DOMAIN heap, src \in Sources, words \in Commands : Dispatch(root, src, words) /\ UNCHANGED utilvars

SpecSets == Init /\ [][NextSets]_vars

\* Guards: Requires objects, a requires list, trigger, dispatch at the Node.
NextGuards ==
  \/ \E req \in GuardReqs, b \in BOOLEAN, t \in GuardTargets : Decorate(req, b, t) /\ UNCHANGED utilvars
  \/ \E t \in GuardTargets, rs \in RequiresLists : Bind(LitStr("save"), t, rs, MaxNodes) /\ UNCHANGED utilvars
  \/ \E m \in DOMAIN mws, k \in DOMAIN knodes : Trigger(m, k) /\ UNCHANGED utilvars
  \/ \E k \in DOMAIN knodes, src \in Sources, words \in EntryCommands :
       DispatchAt(k, src, words) /\ UNCHANGED utilvars

SpecGuards == Init /\ [][NextGuards]_vars

\* Decorator reuse: one decorator object applied to several functions.
NextReuse ==
  \/ \E t \in Targets : Wrap(WrapPermission(3, Opt("nope")), t) /\ UNCHANGED utilvars
  \/ \E m \in DOMAIN mws, t \in ReuseTargets : Rewrap(m, t) /\ UNCHANGED utilvars
  \/ \E m \in DOMAIN mws : Bind(LitStr("save"), Target(m, mws[m].fn), <<>>, MaxReuseNodes) /\ UNCHANGED utilvars
  \/ \E k \in DOMAIN knodes, src \in Sources : DispatchAt(k, src, <<"5">>) /\ UNCHANGED utilvars

SpecReuse == Init /\ [][NextReuse]_vars

\* Nesting: Nodes, MiddleWare over a Node, and sets as members of sets.
NextNest ==
  \/ Bind(LitStr("save"), Target(0, "h1"), <<>>, MaxNodes) /\ UNCHANGED utilvars
  \/ \E k \in DOMAIN knodes : WrapNode(PlayerReq, k) /\ UNCHANGED utilvars
  \/ \E d \in NestDecls, S \in NestMembers : DeclareSubclass(d, S, MaxNestClasses) /\ UNCHANGED utilvars
  \/ \E c \in DOMAIN classes, arg \in {"none", "bad"} : Instantiate(c, arg, TRUE) /\ UNCHANGED utilvars
  \/ \E i \in DOMAIN insts : RootsetOf(i) /\ UNCHANGED utilvars

SpecNest == Init /\ [][NextNest]_vars

\* Composition: a Literal with an args chain over a nested set.
ComposeCommands == {<<"sub", "save", "5">>, <<"sub", "n1", "save", "5">>, <<"n1", "save", "5">>}

NextCompose ==
  \/ Bind(LitStr("save"), Target(0, "h1"), <<>>, MaxNodes) /\ UNCHANGED utilvars
  \/ \E d \in NestDecls, S \in NestMembers : DeclareSubclass(d, S, MaxComposeClasses) /\ UNCHANGED utilvars
  \/ \E args \in ArgChains, c \in DOMAIN classes : LiteralOnSet(LitStr("sub"), args, c) /\ UNCHANGED utilvars
  \/ \E c \in DOMAIN classes : Instantiate(c, "none", TRUE) /\ UNCHANGED utilvars
  \/ \E i \in DOMAIN insts, src \in Sources, words \in ComposeCommands :
       DispatchSet(i, src, words) /\ UNCHANGED utilvars

SpecCompose == Init /\ [][NextCompose]_vars

\* The Channel: one sender thread and one receiver thread.
NextChannel ==
  \/ \E t \in Senders, v \in Values : Send(t, v) /\ UNCHANGED cmdvars
  \/ \E t \in Senders : SendResume(t) /\ UNCHANGED cmdvars
  \/ \E t \in Receivers : Recv(t) /\ UNCHANGED cmdvars
  \/ \E t \in Receivers : RecvResume(t) /\ UNCHANGED cmdvars

SpecChannel == Init /\ [][NextChannel]_vars

\* Jobs: threads calling blocking and non-blocking Jobs of one JobManager.
NextJobs ==
  \/ \E w \in WorkerThreads, blk \in BOOLEAN : Call(w, blk) /\ UNCHANGED cmdvars
  \/ \E w \in WorkerThreads : Resume(w) /\ UNCHANGED cmdvars
  \/ \E w \in WorkerThreads, raises \in BOOLEAN : Finish(w, raises) /\ UNCHANGED cmdvars
  \/ \E w \in WorkerThreads, pick \in WorkerThreads \cup {""} : After(w, pick) /\ UNCHANGED cmdvars

SpecJobs == Init /\ [][NextJobs]_vars

\* Fair scheduling: a thread that can go on does so; every callable ends.
\* Nothing obliges a thread to call a Job.
Progress(w) ==
  \/ Resume(w) /\ UNCHANGED cmdvars
  \/ \E raises \in BOOLEAN : Finish(w, raises) /\ UNCHANGED cmdvars
  \/ \E pick \in WorkerThreads \cup {""} : After(w, pick) /\ UNCHANGED cmdvars

SpecJobsFair == SpecJobs /\ \A w \in WorkerThreads : WF_vars(Progress(w))

\* Info listeners: registrations, cancelers and dispatches of infos.
NextInfo ==
  \/ \E cb \in Callbacks, f \in Filters, once \in BOOLEAN : WatchInfo(cb, f, once) /\ UNCHANGED cmdvars
  \/ \E i \in DOMAIN listeners : Cancel(i) /\ UNCHANGED cmdvars
  \/ \E content \in Contents : OnInfo(content) /\ UNCHANGED cmdvars

SpecInfo == Init /\ [][NextInfo]_vars

\* Annotation resolution on its own.
NextResolve == \E x \in HintExprs : ResolveArg(x) /\ UNCHANGED utilvars

SpecResolve == Init /\ [][NextResolve]_vars

(***************************************************************************)
(* Notions the properties are stated with.                                 *)
(***************************************************************************)
\* The requirements of a MiddleWare chain, outermost decorator first.
RECURSIVE ChainReqs(_, _)
ChainReqs(ms, mw) ==
  IF mw = 0 THEN <<>> ELSE <<ms[mw].req>> \o ChainReqs(ms, ms[mw].last)

\* How often r occurs in the sequence rs.
Count(rs, r) == Cardinality({j \in DOMAIN rs : rs[j] = r})

ValidLit(lit) == LiteralErr(lit) = ""

\* The instances of class c.
InstancesOf(c) == {i \in DOMAIN insts : insts[i].cls = c}

\* The bound Nodes that hang under the registered root `root`.
NodesUnder(root) ==
  {k \in DOMAIN knodes : knodes[k].owner # 0 /\ insts[knodes[k].owner].node = root}

Children(p) == Range(heap[p].children)

\* The bound Nodes whose base the host enters for `words` under `root`.
Entered(root, words) ==
  {k \in NodesUnder(root) :
     words # <<>> /\ FirstChild(heap, root, Head(words)) = knodes[k].node}

\* The dispatch ran the bound action of one of Node k's entries.
RanEntryOf(k) == outcome.r.res = "called" /\ outcome.r.via \in Range(knodes[k].entries)

C2_BoundedInteger ==
  /\ (outcome.op = "bind" /\ outcome.h = "hb" /\ outcome.mw = 0 /\ ValidLit(outcome.lit)) =>
       /\ outcome.err = ""
       /\ LET base == heap[knodes[outcome.node].node]
          IN /\ Len(base.children) = 1
             /\ heap[base.children[1]].kind = "Integer"
             /\ heap[base.children[1]].name = "n"
             /\ heap[base.children[1]].min = Opt(0)
             /\ heap[base.children[1]].max = Opt(10)
  /\ (outcome.op = "dispatch") =>
       \A k \in Entered(outcome.root, outcome.words) : knodes[k].fn = "hb" =>
         /\ outcome.words = <<"save", "11">> => outcome.r.res # "called"
         /\ outcome.words = <<"save", "5">> =>
              /\ RanEntryOf(k)
              /\ outcome.r.call = [h |-> "hb", owner |-> knodes[k].owner, args |-> <<IntV(5)>>]

(***************************************************************************)
(* C3.  A handler whose only parameter is a two-way union (int |           *)
(* QuotableText) binds to exactly two sibling argument nodes under the     *)
(* literal, both named after the parameter, both entries bound to that     *)
(* handler; a command matching either alternative runs the handler with    *)
(* the value that alternative parsed.                                      *)
(***************************************************************************)
C3_UnionSiblings ==
  /\ (outcome.op = "bind" /\ outcome.h = "hu" /\ ValidLit(outcome.lit)) => outcome.err = ""
  /\ \A k \in DOMAIN knodes : knodes[k].fn = "hu" =>
       LET base == heap[knodes[k].node]
           ch == base.children
       IN /\ Len(ch) = 2
          /\ ch[1] # ch[2]
          /\ heap[ch[1]].kind = "Integer" /\ heap[ch[2]].kind = "QuotableText"
          /\ \A j \in 1..2 :
               /\ heap[ch[j]].name = "a"
               /\ heap[ch[j]].cb = PlainCb(knodes[k].top, k)
               /\ heap[ch[j]].children = <<>>
          /\ knodes[k].entries = ch
          /\ base.cb = NoCb
  /\ (outcome.op = "dispatch") =>
       \A k \in Entered(outcome.root, outcome.words) :
         (knodes[k].fn = "hu" /\ knodes[k].top.mw = 0) =>
           LET ch == heap[knodes[k].node].children
               call(v) == [h |-> "hu", owner |-> knodes[k].owner, args |-> <<v>>]
           IN /\ outcome.words = <<"save", "5">>
                   => outcome.r = Result("called", call(IntV(5)), "", ch[1])
              /\ outcome.words = <<"save", "abc">>
                   => outcome.r = Result("called", call(StrV("abc")), "", ch[2])

C3_Witness ==
  /\ outcome.op = "dispatch"
  /\ outcome.r.res = "called"
  /\ outcome.r.call.h = "hu"
  /\ outcome.r.call.args = <<StrV("abc")>>

(***************************************************************************)
(* C4.  Binding (source, a, b=1, c=2) succeeds and yields exactly three    *)
(* entries (after a, after b, after c), each running the handler with the  *)
(* supplied arguments followed by the defaults of the rest.                *)
(***************************************************************************)
C4_TrailingDefaults ==
  (outcome.op = "bind" /\ outcome.h = "hd" /\ outcome.mw = 0 /\ ValidLit(outcome.lit)) =>
    /\ outcome.err = ""
    /\ Len(knodes[outcome.node].entries) = 3

(***************************************************************************)
(* C5.  A bound Literal has literal = its first keyword and literals = all *)
(* its keywords in order (a single str s gives s and (s,)), and the host   *)
(* node holds exactly those keywords; register_to registers the base node  *)
(* once per call and, when the class declares HelpMessage, the help text   *)
(* once for every keyword of the base.                                     *)
(***************************************************************************)
C5_LiteralAliases ==
  /\ (outcome.op = "bind" /\ outcome.err = "") =>
       /\ knodes[outcome.node].literal = outcome.lit.names[1]
       /\ knodes[outcome.node].literals = outcome.lit.names
  /\ \A k \in DOMAIN knodes :
       /\ knodes[k].literals # <<>>
       /\ knodes[k].literal = knodes[k].literals[1]
       /\ heap[knodes[k].node].lits = Range(knodes[k].literals)
  /\ \A w \in Words :
       server.help[w] =
         Cardinality({j \in DOMAIN server.commands :
                        /\ w \in heap[server.commands[j]].lits
                        /\ \E i \in DOMAIN insts :
                             /\ insts[i].node = server.commands[j]
                             /\ classes[insts[i].cls].helpmsg # NoneV})
  /\ (outcome.op = "register" /\ outcome.err = "") =>
       insts[outcome.inst].node \in Range(server.commands)

C5_Witness ==
  /\ outcome.op = "register"
  /\ outcome.err = ""
  /\ heap[insts[outcome.inst].node].lits = {"save", "s"}
  /\ server.help["save"] = 1 /\ server.help["s"] = 1 /\ server.help["pre"] = 0
  /\ \E k \in DOMAIN knodes :
       knodes[k].literal = "save" /\ knodes[k].literals = <<"save", "s">>

Perm3 == WrapPermission(3, Opt("nope"))

(***************************************************************************)
(* C6.  For a Node whose handler is decorated with require_permission(3):  *)
(* a source below level 3 never reaches the handler through any entry and, *)
(* when require_permission(3) is the only guard, is refused with the       *)
(* configured denial message; a source at level 3 or above reaches the     *)
(* handler at every entry (no argument, an integer, a text).               *)
(***************************************************************************)
C6_PermissionGate ==
  (outcome.op = "dispatch") =>
    \A k \in NodesUnder(outcome.root) :
      LET chain == ChainReqs(mws, knodes[k].top.mw)
          enters == k \in Entered(outcome.root, outcome.words)
      IN Perm3 \in Range(chain) =>
           /\ outcome.src.level < 3 =>
                /\ ~RanEntryOf(k)
                /\ enters => outcome.r.res = "denied"
                /\ (enters /\ chain = <<Perm3>>) => outcome.r.msg = "nope"
           /\ (outcome.src.level >= 3 /\ enters /\ chain = <<Perm3>>) =>
                /\ RanEntryOf(k)
                /\ outcome.r.call.h = knodes[k].fn
                /\ outcome.r.call.owner = knodes[k].owner

C6_Witness ==
  /\ outcome.op = "dispatch"
  /\ outcome.src.level = 2
  /\ outcome.words = <<"save", "abc">>
  /\ outcome.r.res = "denied" /\ outcome.r.msg = "nope" /\ outcome.r.call = NoCall
  /\ \E k \in NodesUnder(outcome.root) :
       /\ ChainReqs(mws, knodes[k].top.mw) = <<Perm3>>
       /\ Len(knodes[k].entries) = 3

Perm2 == WrapPermission(2, NoneV)

(***************************************************************************)
(* C7.  Stacking player_only and require_permission(2) in either order     *)
(* leaves both guards on the bound Node's base, each once, so the set of   *)
(* guards is the same for both orders; the handler runs only for a source  *)
(* that passes both.  More generally every guard of the chain is attached, *)
(* as often as the chain holds it.                                         *)
(***************************************************************************)
C7_StackedGuards ==
  /\ \A k \in DOMAIN knodes :
       LET chain == ChainReqs(mws, knodes[k].top.mw)
           reqs == heap[knodes[k].node].reqs
       IN /\ \A r \in Guards : Count(reqs, r) = Count(chain, r)
          /\ Range(chain) = {PlayerReq, Perm2} => Range(reqs) = {PlayerReq, Perm2}
  /\ (outcome.op = "dispatch") =>
       \A k \in NodesUnder(outcome.root) :
         (Range(ChainReqs(mws, knodes[k].top.mw)) = {PlayerReq, Perm2}) =>
           (RanEntryOf(k)
              <=> (/\ outcome.src.is_player
                   /\ outcome.src.level >= 2
                   /\ k \in Entered(outcome.root, outcome.words)))

C7_Witness ==
  /\ outcome.op = "dispatch"
  /\ outcome.r.res = "called"
  /\ \E k \in NodesUnder(outcome.root) :
       /\ ChainReqs(mws, knodes[k].top.mw) = <<Perm2, PlayerReq>>
       /\ RanEntryOf(k)

\* The same with the decorators applied in the other order.
C7_WitnessOtherOrder ==
  /\ outcome.op = "dispatch"
  /\ outcome.r.res = "called"
  /\ \E k \in NodesUnder(outcome.root) :
       /\ ChainReqs(mws, knodes[k].top.mw) = <<PlayerReq, Perm2>>
       /\ RanEntryOf(k)

HelpChildren(i) ==
  {c \in Children(insts[i].node) : heap[c].kind = "Literal" /\ heap[c].lits = {"help"}}

(***************************************************************************)
(* C8.  After a successful CommandSet construction the base node has a     *)
(* 'help' literal child bound to the help method iff the class overrides   *)
(* help, and its fallback is default if the class overrides default (also  *)
(* when it overrides help), else help if the class overrides help and      *)
(* default_help is true, else nothing.                                     *)
(***************************************************************************)
C8_HelpDefaultWiring ==
  /\ \A i \in DOMAIN insts : insts[i].node # 0 =>
       LET cl == classes[insts[i].cls]
           base == heap[insts[i].node]
       IN /\ (HelpChildren(i) # {}) <=> cl.ovHelp
          /\ \A c \in HelpChildren(i) : heap[c].cb = HelpCb(i) /\ insts[i].help_node = c
          /\ Cardinality(HelpChildren(i)) <= 1
          /\ cl.ovDefault => base.cb = DefaultCb(i)
          /\ (~cl.ovDefault /\ ~cl.ovHelp) => base.cb = NoCb
          /\ (~cl.ovDefault /\ cl.ovHelp) => base.cb \in {HelpCb(i), NoCb}
  /\ (outcome.op = "new" /\ outcome.err = "") =>
       LET i == classes[outcome.cls].instance
           cl == classes[outcome.cls]
       IN heap[insts[i].node].cb =
            IF cl.ovDefault THEN DefaultCb(i)
            ELSE IF cl.ovHelp /\ outcome.default_help THEN HelpCb(i)
            ELSE NoCb

C8_Witness ==
  /\ outcome.op = "new"
  /\ outcome.err = ""
  /\ outcome.default_help
  /\ classes[outcome.cls].ovHelp /\ classes[outcome.cls].ovDefault
  /\ heap[insts[classes[outcome.cls].instance].node].cb = DefaultCb(classes[outcome.cls].instance)
  /\ HelpChildren(classes[outcome.cls].instance) # {}

(***************************************************************************)
(* C9.  Integer[m] resolves to an integer parser with upper bound m and no *)
(* lower bound; Integer[lo, hi] to one with lower bound lo and upper bound *)
(* hi; Integer[None, hi] to one with the upper bound only.                 *)
(***************************************************************************)
C9_IntegerBounds ==
  (outcome.op = "resolve" /\ outcome.x.e = "sub" /\ outcome.x.t = "Integer") =>
    LET a == outcome.x.args
    IN /\ (Len(a) = 1 /\ a[1] # NoneV) =>
            /\ outcome.err = ""
            /\ outcome.node.kind = "Integer"
            /\ outcome.node.max = a[1]
            /\ outcome.node.min = NoneV
       /\ (Len(a) = 2 /\ a[2] # NoneV /\ (a[1] # NoneV => TheOne(a[1]) <= TheOne(a[2]))) =>
            /\ outcome.err = ""
            /\ outcome.node.kind = "Integer"
            /\ outcome.node.min = a[1]
            /\ outcome.node.max = a[2]

(***************************************************************************)
(* C10.  Float[lo, hi] with lo <= hi subscripts without error and resolves *)
(* to a float parser with lower bound lo and upper bound hi.               *)
(***************************************************************************)
C10_FloatBounds ==
  (outcome.op = "resolve" /\ outcome.x.e = "sub" /\ outcome.x.t = "Float") =>
    LET a == outcome.x.args
    IN (Len(a) = 2 /\ a[1] # NoneV /\ a[2] # NoneV /\ TheOne(a[1]) <= TheOne(a[2])) =>
         /\ outcome.err = ""
         /\ outcome.node.kind = "Float"
         /\ outcome.node.min = a[1]
         /\ outcome.node.max = a[2]

(***************************************************************************)
(* C15.  Binding (source, a: int | str, b: int) succeeds: each of the two  *)
(* branches for a carries its own argument node b, every path from the     *)
(* base to an entry names a and b once each, and the entries are exactly   *)
(* the two terminal nodes.                                                 *)
(***************************************************************************)
C15_UnionThenParameter ==
  (outcome.op = "bind" /\ outcome.h = "hub" /\ outcome.mw = 0 /\ ValidLit(outcome.lit)) =>
    /\ outcome.err = ""
    /\ LET kn == knodes[outcome.node]
           as == heap[kn.node].children
       IN /\ Len(as) = 2
          /\ \A j \in DOMAIN as :
               /\ heap[as[j]].name = "a"
               /\ Len(heap[as[j]].children) = 1
               /\ heap[heap[as[j]].children[1]].name = "b"
          /\ Range(kn.entries) = {heap[as[j]].children[1] : j \in DOMAIN as}
          /\ \A e \in Range(kn.entries) : heap[e].cb = PlainCb(kn.top, outcome.node)

(***************************************************************************)
(* C16.  Binding (source, a: int | None) raises no error and creates one   *)
(* argument node, for int; nothing is created for the null alternative.    *)
(***************************************************************************)
C16_UnionWithNone ==
  (outcome.op = "bind" /\ outcome.h = "hun" /\ outcome.mw = 0 /\ ValidLit(outcome.lit)) =>
    /\ outcome.err = ""
    /\ LET as == heap[knodes[outcome.node].node].children
       IN /\ Len(as) = 1
          /\ heap[as[1]].kind = "Integer"

(***************************************************************************)
(* C17.  For a handler with k >= 0 plainly typed parameters after the      *)
(* source (k = 0, 1, 2 here), the decorator completes and leaves a         *)
(* non-empty entries list, every entry bound to an action that calls that  *)
(* handler.                                                                *)
(***************************************************************************)
C17_EntriesNonEmpty ==
  (outcome.op = "bind" /\ outcome.h \in {"h0", "h1", "h2"} /\ outcome.mw = 0
     /\ ValidLit(outcome.lit)) =>
    /\ outcome.err = ""
    /\ knodes[outcome.node].entries # <<>>
    /\ \A e \in Range(knodes[outcome.node].entries) :
         heap[e].cb.k \in {"plain", "defarg"} /\ heap[e].cb.fn.h = outcome.h

(***************************************************************************)
(* C20.  A construction that fails with TypeError (no usable node argument *)
(* and no Prefix) leaves the class's instance slot empty, and a later      *)
(* well-formed construction of the class succeeds.                         *)
(***************************************************************************)
C20_FailedConstructionFreesSlot ==
  /\ (outcome.op = "new" /\ outcome.err = "TypeError") => classes[outcome.cls].instance = 0
  /\ (outcome.op = "new" /\ outcome.arg = "lits"
        /\ \A i \in InstancesOf(outcome.cls) : insts[i].node = 0)
       => outcome.err = ""

(***************************************************************************)
(* C11.  Every requirement of the requires list given at Node construction *)
(* is attached, once the chain is built, to each entry of the Node and not *)
(* to its base (unless the base is itself an entry).                       *)
(***************************************************************************)
C11_RequiresListOnEntries ==
  (outcome.op = "bind" /\ outcome.err = "" /\ outcome.mw = 0) =>
    LET kn == knodes[outcome.node]
    IN \A j \in DOMAIN outcome.requires :
         /\ \A e \in Range(kn.entries) : Count(heap[e].reqs, outcome.requires[j]) = 1
         /\ kn.node \notin Range(kn.entries) => Count(heap[kn.node].reqs, outcome.requires[j]) = 0

\* The requirement list of parser node p before a step that may add nodes.
ReqsBefore(p) == IF p \in DOMAIN heap THEN heap[p].reqs ELSE <<>>

(***************************************************************************)
(* C12.  Requires.trigger(node) on a bound Node appends the requirement to *)
(* the Node's base parser node and nothing else when the Requires has      *)
(* at_base = True, and to every parser node in the Node's entries and      *)
(* nothing else when at_base = False (the base only if it is an entry).    *)
(* Checked for trigger called directly and for the trigger that binding a  *)
(* single Requires performs.                                               *)
(***************************************************************************)
C12_TriggerPlacement ==
  [][ LET o == outcome'
          direct == o.op = "trigger"
          bound == o.op = "bind" /\ o.err = "" /\ o.mw # 0 /\ mws[o.mw].last = 0
                     /\ o.requires = <<>>
      IN (direct \/ bound) =>
           LET m == mws[o.mw]
               kn == knodes'[o.node]
               hit == IF m.at_base THEN {kn.node} ELSE Range(kn.entries)
           IN \A p \in DOMAIN heap' :
                heap'[p].reqs = IF p \in hit THEN Append(ReqsBefore(p), m.req)
                                ELSE ReqsBefore(p)
    ]_vars

C12_Witness ==
  /\ outcome.op = "trigger"
  /\ ~mws[outcome.mw].at_base
  /\ LET kn == knodes[outcome.node]
     IN /\ Len(kn.entries) = 2
        /\ kn.node \notin Range(kn.entries)
        /\ heap[kn.node].reqs = <<>>
        /\ \A e \in Range(kn.entries) : heap[e].reqs = <<mws[outcome.mw].req>>

\* The last link of the chain that starts at MiddleWare mw.
RECURSIVE Innermost(_, _)
Innermost(ms, mw) == IF ms[mw].last = 0 THEN mw ELSE Innermost(ms, ms[mw].last)

(***************************************************************************)
(* C18.  Binding a handler wrapped in k >= 1 stacked MiddleWare walks the  *)
(* chain through `last` and returns, having triggered every link once,     *)
(* outermost decorator first, and the Node records the innermost function  *)
(* as its callable.                                                        *)
(***************************************************************************)
C18_ChainWalk ==
  (outcome.op = "bind" /\ outcome.mw # 0 /\ ValidLit(outcome.lit)) =>
    /\ outcome.err = ""
    /\ heap[knodes[outcome.node].node].reqs = ChainReqs(mws, outcome.mw)
    /\ knodes[outcome.node].fn = mws[Innermost(mws, outcome.mw)].fn

(***************************************************************************)
(* C19.  Applying a decorator object again leaves every bound Node's chain *)
(* as it was (the wrapped function and the last pointer of its top         *)
(* MiddleWare), and running an entry of a bound Node calls the function    *)
(* the Node was bound to.                                                  *)
(***************************************************************************)
C19_IndependentDecorators ==
  [][ \A k \in DOMAIN knodes :
        LET m == knodes[k].top.mw
        IN /\ m # 0 => (mws'[m].fn = mws[m].fn /\ mws'[m].last = mws[m].last)
           /\ (outcome'.op = "dispatch" /\ outcome'.r.res = "called"
                 /\ outcome'.r.via \in Range(knodes[k].entries))
                => outcome'.r.call.h = knodes[k].fn
    ]_vars

\* The sets reached from the sets of S by one parent pointer, and S itself.
Up(S) == S \cup {insts[x].parent : x \in {y \in S : insts[y].parent # 0}}

\* The set i and its ancestors.
RECURSIVE UpN(_, _)
UpN(S, n) == IF n = 0 THEN S ELSE UpN(Up(S), n - 1)
Ancestors(i) == UpN({i}, Len(insts))

\* The class whose body holds the reference r.
Holders(r) == {c \in DOMAIN classes : r \in Range(classes[c].nodes)}

(***************************************************************************)
(* C13.  In a tree of nested CommandSets, rootset of any constructed set   *)
(* terminates and returns the one ancestor (or the set itself) whose       *)
(* parent is None.  A Node's owner and a nested set's parent is the        *)
(* instance of the class that holds it, from that class's construction on, *)
(* and None before.                                                        *)
(***************************************************************************)
C13_RootsetAndOwnership ==
  /\ outcome.op = "rootset" =>
       /\ outcome.root # 0
       /\ insts[outcome.root].parent = 0
       /\ outcome.root \in Ancestors(outcome.inst)
       /\ \A a \in Ancestors(outcome.inst) : insts[a].parent = 0 => a = outcome.root
  /\ \A k \in DOMAIN knodes :
       knodes[k].owner # 0 =>
         \E c \in Holders(NodeRef(k)) : classes[c].instance = knodes[k].owner
  /\ \A i \in DOMAIN insts :
       insts[i].parent # 0 =>
         \E c \in Holders(SetRef(i)) : classes[c].instance = insts[i].parent
  /\ \A s \in DOMAIN insts :
       insts[s].node # 0 =>
         \A j \in DOMAIN classes[insts[s].cls].nodes :
           LET r == classes[insts[s].cls].nodes[j]
           IN /\ r.t = "node" => knodes[r.id].owner = s
              /\ r.t = "set" => insts[r.id].parent = s

C13_Witness ==
  /\ outcome.op = "rootset"
  /\ insts[outcome.inst].parent # 0
  /\ insts[insts[outcome.inst].parent].parent = outcome.root
  /\ outcome.root \notin {0, outcome.inst, insts[outcome.inst].parent}
  /\ \E k \in DOMAIN knodes : knodes[k].owner = outcome.inst

(***************************************************************************)
(* C14.  Constructing a set whose class holds a MiddleWare member          *)
(* completes without error: the requirement of every link ends up on the   *)
(* set's base parser node and the real child is attached under the base.   *)
(***************************************************************************)
C14_MiddleWareMember ==
  (outcome.op = "new" /\ outcome.before = 0 /\ outcome.arg = "none"
     /\ classes[outcome.cls].prefix # NoneV
     /\ \E j \in DOMAIN classes[outcome.cls].nodes : classes[outcome.cls].nodes[j].t = "mw") =>
    /\ outcome.err = ""
    /\ LET base == insts[classes[outcome.cls].instance].node
       IN \A j \in DOMAIN classes[outcome.cls].nodes :
            LET r == classes[outcome.cls].nodes[j]
            IN r.t = "mw" =>
                 /\ Count(heap[base].reqs, mws[r.id].req) = 1
                 /\ knodes[mws[r.id].over].node \in Children(base)

(***************************************************************************)
(* C21.  When the parent of a nested set built by a Literal decorator with *)
(* an args chain is constructed, the decorator's base is a child of the    *)
(* parent's base node, and the tip of a non-empty chain (the nested set's  *)
(* own node) is not: the nested children are reached through the base and  *)
(* the whole chain.                                                        *)
(***************************************************************************)
C21_ChainUnderParent ==
  (outcome.op = "new" /\ outcome.err = "") =>
    \A i \in DOMAIN insts :
      (insts[i].parent = classes[outcome.cls].instance /\ insts[i].literals # <<>>) =>
        LET top == insts[insts[i].parent].node
        IN /\ insts[i].base \in Children(top)
           /\ insts[i].base # insts[i].node => insts[i].node \notin Children(top)

(***************************************************************************)
(* C22.  Channel rendezvous: whichever of the sender and the receiver      *)
(* arrives first, the value a recv returns is the value of the send it     *)
(* met, not the value the channel held before.                             *)
(***************************************************************************)
C22_Rendezvous ==
  (outcome.op = "recv" /\ outcome.returned) => outcome.got = Opt(outcome.paired)

\* The threads between begin's return and the end of after().
Holding == {w \in WorkerThreads : workers[w].pc \in {"running", "finishing"}}

(***************************************************************************)
(* C23.  JobManager mutual exclusion: at most one job's callable executes  *)
(* at any time; a non-blocking job called while the manager is busy        *)
(* returns None without executing its callable; the slot is None exactly   *)
(* when no job is running.                                                 *)
(***************************************************************************)
C23_MutualExclusion ==
  /\ Cardinality(Holding) <= 1
  /\ manager.d = NoneV <=> Holding = {}
  /\ manager.d # NoneV => TheOne(manager.d).job \in Holding
  /\ (outcome.op = "call" /\ outcome.busy /\ ~outcome.block) =>
       /\ outcome.none
       /\ workers[outcome.by].pc = "idle"
       /\ workers[outcome.by].ran = outcome.ran

C23_Witness ==
  /\ outcome.op = "call" /\ outcome.busy /\ ~outcome.block
  /\ \E w \in WorkerThreads : workers[w].pc = "running"
  /\ \E w \in WorkerThreads : workers[w].pc = "waiting"

(***************************************************************************)
(* C24.  JobManager progress: under fair scheduling a blocking job that    *)
(* waits for the manager eventually executes its callable and returns,     *)
(* also when a callable raises.                                            *)
(***************************************************************************)
C24_Progress ==
  \A w \in WorkerThreads :
    /\ (workers[w].pc \in {"waiting", "woken"}) ~> (workers[w].pc = "running")
    /\ (workers[w].pc = "running") ~> (workers[w].pc = "idle")

C24_Witness ==
  /\ \E w \in WorkerThreads : workers[w].pc = "waiting"
  /\ \E w \in WorkerThreads : workers[w].pc = "woken"
  /\ \E w \in WorkerThreads : workers[w].pc = "finishing" /\ workers[w].raised

(***************************************************************************)
(* C25.  A listener registered with watch_info: its callback is not        *)
(* invoked any more once its canceler has been called; with once=True it   *)
(* is invoked at most once in total; it is never invoked for an info whose *)
(* content is None or that fails the filter.                               *)
(***************************************************************************)
C25_ListenerDiscipline ==
  /\ [](\A i \in DOMAIN listeners : listeners[i].once => listeners[i].calls <= 1)
  /\ [](outcome.op = "info" =>
          \A i \in outcome.invoked :
            /\ outcome.content # NoneV
            /\ Passes(listeners[i].filterc, TheOne(outcome.content)))
  /\ [][\A i \in DOMAIN listeners :
          listeners[i].canceled => listeners'[i].calls = listeners[i].calls]_vars

C25_Witness ==
  /\ outcome.op = "info" /\ outcome.content # NoneV
  /\ \E i \in DOMAIN listeners :
       /\ listeners[i].canceled /\ listeners[i].calls = 1
       /\ i \notin outcome.invoked
       /\ Passes(listeners[i].filterc, TheOne(outcome.content))
  /\ \E i \in DOMAIN listeners :
       /\ listeners[i].once /\ ~listeners[i].canceled /\ listeners[i].calls = 1
       /\ i \notin outcome.invoked
       /\ Passes(listeners[i].filterc, TheOne(outcome.content))

====
